---------------------------- MODULE Spec2Model ----------------------------
(***************************************************************************)
(* A model of the loft core of pwinston/loft:                              *)
(*                                                                         *)
(*   - src/src/loft/PerimeterWalkAlgorithm.ts : ParameterizedLoop,         *)
(*     FaceBuilder, walkPerimeters, alignLoopStarts and the entry point    *)
(*     perimeterWalkAlgorithm;                                             *)
(*   - src/unnamed/part_000 (LoftableModel.ts) : LoftSegment and           *)
(*     LoftableModel (fromPlanes, buildSegments, the roof and plane        *)
(*     queries);                                                           *)
(*   - src/src/model/Model.ts : SketchPlane.setVertex / setVertices.       *)
(*                                                                         *)
(* Numbers.  The source computes with IEEE doubles.  The model computes    *)
(* with exact rationals [n, d] in lowest terms; the input loops are chosen *)
(* with integer edge lengths, so that distanceTo is exact too.  The tie    *)
(* tolerance of the walk is the source's 1e-9.                             *)
(***************************************************************************)
EXTENDS Integers, Sequences, FiniteSets, TLC

VARIABLES
    \* ---- one call of perimeterWalkAlgorithm(loopA, heightA, loopB, heightB)
    pc,         \* "call" | "walk" | "done": where the call is
    loopA,      \* argument: the first loop (sequence of Vector2)
    heightA,    \* argument
    loopB,      \* argument: the second loop
    heightB,    \* argument
    paramA,     \* walkPerimeters' loopA: a ParameterizedLoop
    paramB,     \* walkPerimeters' loopB: a ParameterizedLoop
    iA,         \* walkPerimeters' cursor on loop A
    iB,         \* walkPerimeters' cursor on loop B
    faces,      \* FaceBuilder.faces
    steps,      \* history: for each face, the iteration that emitted it
    result,     \* the returned LoftResult's faces, once pc = "done"
    \* ---- the planes, the registry and one LoftableModel.fromPlanes call
    planeHeight,      \* SketchPlane.height of each plane object
    planeVertices,    \* the vertices of each plane object's Sketch, now
    registry,         \* the names registerLoftAlgorithm has registered
    defaultAlgorithm, \* LOFT.DEFAULT_ALGORITHM: << >> or <<name>>
    phase,            \* "idle" | "returned" | "threw": the fromPlanes call
    argPlanes,        \* its argument planes (plane objects, in call order)
    argName,          \* its argument algorithmName: << >> or <<name>>
    segments,         \* LoftableModel.segments of the model it returned
    warned,           \* the names console.warn reported unknown
    built,            \* history: what the model showed when it was returned
    \* ---- one Model (model/Model.ts) and the calls made on it
    modelPlanes,      \* Model.planes (plane objects, in array order)
    segmentLocked,    \* Model.segmentLocked
    lastCall          \* history: the last call on the Model and its result

walkVars == <<pc, loopA, heightA, loopB, heightB, paramA, paramB, iA, iB,
              faces, steps, result>>

loftVars == <<planeHeight, planeVertices, registry, defaultAlgorithm, phase,
              argPlanes, argName, segments, warned, built>>

modelVars == <<modelPlanes, segmentLocked, lastCall>>

vars == <<walkVars, loftVars, modelVars>>

---------------------------------------------------------------------------
(* Numbers: exact rationals                                                *)

Abs(x) == IF x < 0 THEN -x ELSE x

RECURSIVE GCD(_, _)
GCD(a, b) == IF b = 0 THEN a ELSE GCD(b, a % b)

\* The rational n/d (d # 0), in lowest terms with a positive denominator.
Rat(n, d) ==
    LET s == IF d < 0 THEN -1 ELSE 1
        g == GCD(Abs(n), Abs(d))
    IN  [n |-> (s * n) \div g, d |-> (s * d) \div g]

RAdd(a, b) == Rat(a.n * b.d + b.n * a.d, a.d * b.d)
RSub(a, b) == Rat(a.n * b.d - b.n * a.d, a.d * b.d)
RMul(a, b) == Rat(a.n * b.n, a.d * b.d)
RDiv(a, b) == Rat(a.n * b.d, a.d * b.n)
RLt(a, b)  == a.n * b.d < b.n * a.d
RLe(a, b)  == a.n * b.d <= b.n * a.d

\* 1 / EPS for the walk's "const EPS = 1e-9".
EpsInv == 1000000000

\* Math.abs(a - b) < EPS.  With m = |a.n*b.d - b.n*a.d| and q = a.d*b.d the
\* test is m/q < 1/EpsInv, that is m * EpsInv < q, that is (m and q being
\* integers) m <= (q - 1) \div EpsInv: the form that stays within 32 bits.
AbsDiffLessThanEPS(a, b) ==
    Abs(a.n * b.d - b.n * a.d) <= ((a.d * b.d) - 1) \div EpsInv

---------------------------------------------------------------------------
(* THREE.Vector2 / THREE.Vector3                                           *)

V2(x, y) == [x |-> Rat(x, 1), y |-> Rat(y, 1)]

\* The largest r in lo..hi with r * r <= k, by bisection.
RECURSIVE SqrtWithin(_, _, _)
SqrtWithin(k, lo, hi) ==
    IF lo >= hi THEN lo
    ELSE LET mid == (lo + hi + 1) \div 2
         IN  IF mid * mid <= k THEN SqrtWithin(k, mid, hi)
             ELSE SqrtWithin(k, lo, mid - 1)

\* Math.sqrt on a non-negative integer below 2^31 (exact on the perfect
\* squares the input loops produce; rounded down otherwise).
ISqrt(k) == SqrtWithin(k, 0, IF k < 46340 THEN k ELSE 46340)

\* The square of Vector2.distanceTo.
DistanceToSquared(p, q) ==
    LET dx == RSub(p.x, q.x)
        dy == RSub(p.y, q.y)
    IN  RAdd(RMul(dx, dx), RMul(dy, dy))

\* Vector2.distanceTo.
DistanceTo(p, q) ==
    LET s == DistanceToSquared(p, q) IN ISqrt(s.n \div s.d)

---------------------------------------------------------------------------
(* util/Geometry.ensureWindingCCW (spec 4.1): the shoelace sum decides;    *)
(* a clockwise loop comes back reversed, any other loop unchanged.         *)

Reverse(s) == [k \in 1..Len(s) |-> s[Len(s) + 1 - k]]

RECURSIVE ShoelaceSum(_, _)
ShoelaceSum(loop, k) ==
    IF k = 0 THEN Rat(0, 1)
    ELSE LET p == loop[k]
             q == loop[(k % Len(loop)) + 1]
         IN  RAdd(ShoelaceSum(loop, k - 1),
                  RSub(RMul(p.x, q.y), RMul(q.x, p.y)))

SignedArea2(loop) == ShoelaceSum(loop, Len(loop))

ensureWindingCCW(loop) ==
    IF Len(loop) >= 3 /\ SignedArea2(loop).n < 0 THEN Reverse(loop) ELSE loop

---------------------------------------------------------------------------
(* class ParameterizedLoop                                                 *)

\* The constructor's running "total" after the edges 0 .. k-1.
RECURSIVE CumulativeDistance(_, _)
CumulativeDistance(vertices, k) ==
    IF k = 0 THEN 0
    ELSE CumulativeDistance(vertices, k - 1)
         + DistanceTo(vertices[k], vertices[(k % Len(vertices)) + 1])

\* Mutant of ParameterizedLoop: the distances are stored as they are, not
\* divided by the total.
ParameterizedLoopUnnormalized(vertices) ==
    LET vs    == ensureWindingCCW(vertices)
        n     == Len(vs)
        total == CumulativeDistance(vs, n)
        m     == IF n = 0 THEN 1 ELSE n
    IN  [vertices    |-> vs,
         params      |-> [k \in 1..m |-> Rat(CumulativeDistance(vs, k - 1), 1)],
         totalLength |-> total]

\* new ParameterizedLoop(vertices).  "distances" starts as [0] and gets one
\* entry per edge but the closing one, so it has max(n, 1) entries.
ParameterizedLoop(vertices) ==
    LET vs    == ensureWindingCCW(vertices)
        n     == Len(vs)
        total == CumulativeDistance(vs, n)
        m     == IF n = 0 THEN 1 ELSE n
    IN  [vertices    |-> vs,
         params      |-> [k \in 1..m |->
                            IF total > 0
                            THEN Rat(CumulativeDistance(vs, k - 1), total)
                            ELSE Rat(0, 1)],
         totalLength |-> total]

\* get count()
Count(L) == Len(L.vertices)

ParamWrapping(L, i) == L.params[(i % Count(L)) + 1]

\* param(i): the sentinel 1.0 from index n on.
Param(L, i) == IF i >= Count(L) THEN Rat(1, 1) ELSE L.params[i + 1]

\* vertex(i): with wrap-around.
Vertex(L, i) == L.vertices[(i % Count(L)) + 1]

\* interpolate(i, t)
Interpolate(L, i, t) ==
    LET v0   == Vertex(L, i)
        v1   == Vertex(L, i + 1)
        t0   == Param(L, i)
        t1   == Param(L, i + 1)
        span == IF RLt(t0, t1) THEN RSub(t1, t0)
                ELSE RAdd(RSub(Rat(1, 1), t0), t1)
    IN  IF span.n = 0 THEN v0
        ELSE LET u == RDiv(RSub(t, t0), span)
             IN  [x |-> RAdd(v0.x, RMul(u, RSub(v1.x, v0.x))),
                  y |-> RAdd(v0.y, RMul(u, RSub(v1.y, v0.y)))]

---------------------------------------------------------------------------
(* class FaceBuilder                                                       *)

toPoint3D_A(p, hA) == [x |-> p.x, y |-> p.y, z |-> hA]
toPoint3D_B(p, hB) == [x |-> p.x, y |-> p.y, z |-> hB]

\* addQuad(a0, a1, b0, b1): the face is [a0, a1, b1, b0].
addQuad(fs, hA, hB, a0, a1, b0, b1) ==
    Append(fs, [vertices |-> << toPoint3D_A(a0, hA), toPoint3D_A(a1, hA),
                                toPoint3D_B(b1, hB), toPoint3D_B(b0, hB) >>])

---------------------------------------------------------------------------
(* function walkPerimeters: one iteration of its while loop                *)

\* The while condition: "iA < nA || iB < nB".
WalkContinues(LA, LB, st) == st.iA < Count(LA) \/ st.iB < Count(LB)

\* Mutant of Branch: the chain without its two "loop is done" tests.
BranchWithoutExhaustion(LA, LB, st) ==
    LET tNextA == Param(LA, st.iA + 1)
        tNextB == Param(LB, st.iB + 1)
    IN  IF AbsDiffLessThanEPS(tNextA, tNextB) THEN "tie"
        ELSE IF RLt(tNextA, tNextB) THEN "A leads"
        ELSE "B leads"

\* The if / else-if chain that picks the iteration's branch.
Branch(LA, LB, st) ==
    LET tNextA == Param(LA, st.iA + 1)
        tNextB == Param(LB, st.iB + 1)
    IN  IF st.iA >= Count(LA) THEN "A exhausted"
        ELSE IF st.iB >= Count(LB) THEN "B exhausted"
        ELSE IF AbsDiffLessThanEPS(tNextA, tNextB) THEN "tie"
        ELSE IF RLt(tNextA, tNextB) THEN "A leads"
        ELSE "B leads"

\* The history entry of one iteration: its branch, the cursors it started
\* from, which of a1 / b1 it took from vertex() (exact) and which from
\* interpolate(), and that interpolate call's arguments.
StepRecord(br, st, a1Exact, b1Exact, loop, edge, t) ==
    [branch |-> br, iA |-> st.iA, iB |-> st.iB,
     a1Exact |-> a1Exact, b1Exact |-> b1Exact,
     interpLoop |-> loop, interpEdge |-> edge, interpT |-> t]

\* "Loop A is done, only advance B".
StepAExhausted(LA, LB, hA, hB, st) ==
    LET tNextB == Param(LB, st.iB + 1)
        a0 == Vertex(LA, st.iA)
        b0 == Vertex(LB, st.iB)
        b1 == Vertex(LB, st.iB + 1)
        a1 == Interpolate(LA, Count(LA) - 1, tNextB)
    IN  [iA |-> st.iA, iB |-> st.iB + 1,
         faces |-> addQuad(st.faces, hA, hB, a0, a1, b0, b1),
         steps |-> Append(st.steps,
                     StepRecord("A exhausted", st, FALSE, TRUE,
                                "A", Count(LA) - 1, tNextB))]

\* "Loop B is done, only advance A".
StepBExhausted(LA, LB, hA, hB, st) ==
    LET tNextA == Param(LA, st.iA + 1)
        a0 == Vertex(LA, st.iA)
        b0 == Vertex(LB, st.iB)
        a1 == Vertex(LA, st.iA + 1)
        b1 == Interpolate(LB, Count(LB) - 1, tNextA)
    IN  [iA |-> st.iA + 1, iB |-> st.iB,
         faces |-> addQuad(st.faces, hA, hB, a0, a1, b0, b1),
         steps |-> Append(st.steps,
                     StepRecord("B exhausted", st, TRUE, FALSE,
                                "B", Count(LB) - 1, tNextA))]

\* "CASE 1: both reach their next vertex at the same parameter".
StepTie(LA, LB, hA, hB, st) ==
    LET a0 == Vertex(LA, st.iA)
        b0 == Vertex(LB, st.iB)
        a1 == Vertex(LA, st.iA + 1)
        b1 == Vertex(LB, st.iB + 1)
    IN  [iA |-> st.iA + 1, iB |-> st.iB + 1,
         faces |-> addQuad(st.faces, hA, hB, a0, a1, b0, b1),
         steps |-> Append(st.steps,
                     StepRecord("tie", st, TRUE, TRUE,
                                "none", 0, Rat(0, 1)))]

\* Mutant of StepALeads: "iB++" where the branch has "iA++".
StepALeadsAdvancesB(LA, LB, hA, hB, st) ==
    LET tNextA == Param(LA, st.iA + 1)
        a0 == Vertex(LA, st.iA)
        b0 == Vertex(LB, st.iB)
        a1 == Vertex(LA, st.iA + 1)
        b1 == Interpolate(LB, st.iB, tNextA)
    IN  [iA |-> st.iA, iB |-> st.iB + 1,
         faces |-> addQuad(st.faces, hA, hB, a0, a1, b0, b1),
         steps |-> Append(st.steps,
                     StepRecord("A leads", st, TRUE, FALSE,
                                "B", st.iB, tNextA))]

\* "CASE 2: A's next vertex comes before B's".
StepALeads(LA, LB, hA, hB, st) ==
    LET tNextA == Param(LA, st.iA + 1)
        a0 == Vertex(LA, st.iA)
        b0 == Vertex(LB, st.iB)
        a1 == Vertex(LA, st.iA + 1)
        b1 == Interpolate(LB, st.iB, tNextA)
    IN  [iA |-> st.iA + 1, iB |-> st.iB,
         faces |-> addQuad(st.faces, hA, hB, a0, a1, b0, b1),
         steps |-> Append(st.steps,
                     StepRecord("A leads", st, TRUE, FALSE,
                                "B", st.iB, tNextA))]

\* Mutant of StepBLeads: b1 is "vertex(iB)" where the branch has
\* "vertex(iB + 1)".
StepBLeadsStaysOnB0(LA, LB, hA, hB, st) ==
    LET tNextB == Param(LB, st.iB + 1)
        a0 == Vertex(LA, st.iA)
        b0 == Vertex(LB, st.iB)
        a1 == Interpolate(LA, st.iA, tNextB)
        b1 == Vertex(LB, st.iB)
    IN  [iA |-> st.iA, iB |-> st.iB + 1,
         faces |-> addQuad(st.faces, hA, hB, a0, a1, b0, b1),
         steps |-> Append(st.steps,
                     StepRecord("B leads", st, FALSE, TRUE,
                                "A", st.iA, tNextB))]

\* "CASE 3: B's next vertex comes before A's".
StepBLeads(LA, LB, hA, hB, st) ==
    LET tNextB == Param(LB, st.iB + 1)
        a0 == Vertex(LA, st.iA)
        b0 == Vertex(LB, st.iB)
        a1 == Interpolate(LA, st.iA, tNextB)
        b1 == Vertex(LB, st.iB + 1)
    IN  [iA |-> st.iA, iB |-> st.iB + 1,
         faces |-> addQuad(st.faces, hA, hB, a0, a1, b0, b1),
         steps |-> Append(st.steps,
                     StepRecord("B leads", st, FALSE, TRUE,
                                "A", st.iA, tNextB))]

\* The body of the while loop.
WalkIteration(LA, LB, hA, hB, st) ==
    LET br == Branch(LA, LB, st)
    IN  IF br = "A exhausted" THEN StepAExhausted(LA, LB, hA, hB, st)
        ELSE IF br = "B exhausted" THEN StepBExhausted(LA, LB, hA, hB, st)
        ELSE IF br = "tie" THEN StepTie(LA, LB, hA, hB, st)
        ELSE IF br = "A leads" THEN StepALeads(LA, LB, hA, hB, st)
        ELSE StepBLeads(LA, LB, hA, hB, st)

\* walkPerimeters' locals on entry: iA = 0, iB = 0, a fresh FaceBuilder.
WalkStart == [iA |-> 0, iB |-> 0, faces |-> << >>, steps |-> << >>]

\* walkPerimeters run to the end of its loop.
RECURSIVE WalkLoop(_, _, _, _, _)
WalkLoop(LA, LB, hA, hB, st) ==
    IF WalkContinues(LA, LB, st)
    THEN WalkLoop(LA, LB, hA, hB, WalkIteration(LA, LB, hA, hB, st))
    ELSE st

---------------------------------------------------------------------------
(* Aligning the starting points                                            *)

\* findClosestVertexIndex after its loop has seen loopB[0 .. k-1]:
\* [index, dist], dist = -1 standing for Infinity.  The loop compares
\* distances; the model compares their squares, which orders them the same
\* way without rounding a square root.
RECURSIVE ClosestAfter(_, _, _)
ClosestAfter(la, lb, k) ==
    IF k = 0 THEN [index |-> 0, dist |-> Rat(-1, 1)]
    ELSE LET best == ClosestAfter(la, lb, k - 1)
             dist == DistanceToSquared(la[1], lb[k])
         IN  IF best.dist.n < 0 \/ RLt(dist, best.dist)
             THEN [index |-> k - 1, dist |-> dist]
             ELSE best

findClosestVertexIndex(la, lb) == ClosestAfter(la, lb, Len(lb)).index

rotateArray(arr, startIndex) ==
    IF startIndex = 0 \/ Len(arr) = 0 THEN arr
    ELSE SubSeq(arr, startIndex + 1, Len(arr)) \o SubSeq(arr, 1, startIndex)

alignLoopStarts(la, lb) == rotateArray(lb, findClosestVertexIndex(la, lb))

---------------------------------------------------------------------------
(* function perimeterWalkAlgorithm                                         *)

\* Mutant of IsDegenerate: "< 2" where the test has "< 3".
IsDegenerateBelowTwo(la, lb) == Len(la) < 2 \/ Len(lb) < 2

\* "if (loopA.length < 3 || loopB.length < 3) return { faces: [] }"
IsDegenerate(la, lb) == Len(la) < 3 \/ Len(lb) < 3

\* The two ParameterizedLoops the walk runs on.
PreparedA(la) == ParameterizedLoop(ensureWindingCCW(la))
\* Mutant of PreparedB: loopB aligned as given, not normalised first.
PreparedBUnnormalized(la, lb) ==
    ParameterizedLoop(alignLoopStarts(ensureWindingCCW(la), lb))

PreparedB(la, lb) ==
    ParameterizedLoop(alignLoopStarts(ensureWindingCCW(la),
                                      ensureWindingCCW(lb)))

\* The whole call, as the function it is: the faces it returns.
PerimeterWalkFaces(la, hA, lb, hB) ==
    IF IsDegenerate(la, lb) THEN << >>
    ELSE WalkLoop(PreparedA(la), PreparedB(la, lb), hA, hB, WalkStart).faces

---------------------------------------------------------------------------
(* The algorithm registry (LoftAlgorithm.ts, spec 4.6) and LOFT             *)

\* An optional value: << >> for undefined / null, <<v>> for the value v.
\* a ?? b
Coalesce(a, b) == IF a # << >> THEN a ELSE b

\* The literal default name in fromPlanes.
HardcodedDefault == "perimeter-walk"

\* The names an algorithm may be registered under: the perimeter walk,
\* registered by PerimeterWalkAlgorithm.ts, and one alternate strategy.
AlgorithmNames == { "perimeter-walk", "alt" }

\* getLoftAlgorithm(name): the algorithm registered under name, if any.
getLoftAlgorithm(reg, name) == IF name \in reg THEN <<name>> ELSE << >>

\* The alternate strategy: a stand-in that returns one triangle.
AltFaces(la, hA, lb, hB) ==
    IF Len(la) < 3 \/ Len(lb) < 3 THEN << >>
    ELSE << [vertices |-> << toPoint3D_A(la[1], hA), toPoint3D_A(la[2], hA),
                             toPoint3D_B(lb[1], hB) >>] >>

\* algorithm(loopA, heightA, loopB, heightB).faces for a registered name.
RunAlgorithm(name, la, hA, lb, hB) ==
    IF name = "perimeter-walk" THEN PerimeterWalkFaces(la, hA, lb, hB)
    ELSE AltFaces(la, hA, lb, hB)

---------------------------------------------------------------------------
(* class LoftableModel                                                     *)

\* [...planes].sort((a, b) => a.getHeight() - b.getHeight()): a stable
\* sort, here by insertion behind the planes that are not higher.
InsertByHeight(sorted, plane, height) ==
    LET keep == { k \in 0..Len(sorted) :
                    \A j \in 1..k : height[sorted[j]] <= height[plane] }
        at   == CHOOSE k \in keep : \A j \in keep : j <= k
    IN  SubSeq(sorted, 1, at) \o <<plane>> \o SubSeq(sorted, at + 1, Len(sorted))

RECURSIVE SortFirst(_, _, _)
SortFirst(planes, k, height) ==
    IF k = 0 THEN << >>
    ELSE InsertByHeight(SortFirst(planes, k - 1, height), planes[k], height)

SortByHeight(planes, height) == SortFirst(planes, Len(planes), height)

\* buildSegments(planes, algorithm): one LoftSegment per adjacent pair.
buildSegments(planes, algorithm, verts, height) ==
    [i \in 1..(Len(planes) - 1) |->
        [bottomPlane |-> planes[i],
         topPlane    |-> planes[i + 1],
         faces       |-> RunAlgorithm(algorithm,
                                      verts[planes[i]], height[planes[i]],
                                      verts[planes[i + 1]], height[planes[i + 1]])]]

\* Mutant of FromPlanes: the fallback looks up the name the default
\* resolves to ("LOFT.DEFAULT_ALGORITHM ?? 'perimeter-walk'") where the
\* code looks up the literal 'perimeter-walk'.
FromPlanesFallsBackToConfigured(planes, algorithmName, reg, dflt, verts, height) ==
    IF Len(planes) < 2
    THEN [phase |-> "returned", segments |-> << >>, warned |-> << >>]
    ELSE LET sortedPlanes == SortByHeight(planes, height)
             name == Coalesce(Coalesce(algorithmName, dflt), <<HardcodedDefault>>)[1]
             algorithm == getLoftAlgorithm(reg, name)
         IN  IF algorithm = << >>
             THEN LET fallback == getLoftAlgorithm(reg,
                                    Coalesce(dflt, <<HardcodedDefault>>)[1])
                  IN  IF fallback = << >>
                      THEN [phase |-> "threw", segments |-> << >>,
                            warned |-> <<name>>]
                      ELSE [phase |-> "returned",
                            segments |-> buildSegments(sortedPlanes, fallback[1],
                                                       verts, height),
                            warned |-> <<name>>]
             ELSE [phase |-> "returned",
                   segments |-> buildSegments(sortedPlanes, algorithm[1],
                                              verts, height),
                   warned |-> << >>]

\* Mutant of FromPlanes: the algorithm is resolved before the
\* "planes.length < 2" test.
FromPlanesResolvesFirst(planes, algorithmName, reg, dflt, verts, height) ==
    LET sortedPlanes == SortByHeight(planes, height)
        name == Coalesce(Coalesce(algorithmName, dflt), <<HardcodedDefault>>)[1]
        algorithm == getLoftAlgorithm(reg, name)
        fallback == getLoftAlgorithm(reg, HardcodedDefault)
        using == Coalesce(algorithm, fallback)
        warn == IF algorithm = << >> THEN <<name>> ELSE << >>
    IN  IF using = << >>
        THEN [phase |-> "threw", segments |-> << >>, warned |-> warn]
        ELSE [phase |-> "returned",
              segments |-> IF Len(planes) < 2 THEN << >>
                           ELSE buildSegments(sortedPlanes, using[1], verts, height),
              warned |-> warn]

\* Mutant of FromPlanes: the planes are taken in call order, unsorted.
FromPlanesUnsorted(planes, algorithmName, reg, dflt, verts, height) ==
    IF Len(planes) < 2
    THEN [phase |-> "returned", segments |-> << >>, warned |-> << >>]
    ELSE LET name == Coalesce(Coalesce(algorithmName, dflt), <<HardcodedDefault>>)[1]
             using == Coalesce(getLoftAlgorithm(reg, name),
                               getLoftAlgorithm(reg, HardcodedDefault))
         IN  IF using = << >>
             THEN [phase |-> "threw", segments |-> << >>, warned |-> <<name>>]
             ELSE [phase |-> "returned",
                   segments |-> buildSegments(planes, using[1], verts, height),
                   warned |-> IF getLoftAlgorithm(reg, name) = << >>
                              THEN <<name>> ELSE << >>]

\* static fromPlanes(planes, algorithmName?): what the call does, as
\* [phase, segments, warned]: it returns a model ("returned", with the
\* model's segments) or throws ("threw"); warned holds the name console.warn
\* reported, if any.
FromPlanes(planes, algorithmName, reg, dflt, verts, height) ==
    IF Len(planes) < 2
    THEN [phase |-> "returned", segments |-> << >>, warned |-> << >>]
    ELSE LET sortedPlanes == SortByHeight(planes, height)
             name == Coalesce(Coalesce(algorithmName, dflt), <<HardcodedDefault>>)[1]
             algorithm == getLoftAlgorithm(reg, name)
         IN  IF algorithm = << >>
             THEN LET fallback == getLoftAlgorithm(reg, HardcodedDefault)
                  IN  IF fallback = << >>
                      THEN [phase |-> "threw", segments |-> << >>,
                            warned |-> <<name>>]
                      ELSE [phase |-> "returned",
                            segments |-> buildSegments(sortedPlanes, fallback[1],
                                                       verts, height),
                            warned |-> <<name>>]
             ELSE [phase |-> "returned",
                   segments |-> buildSegments(sortedPlanes, algorithm[1],
                                              verts, height),
                   warned |-> << >>]

\* Mutant of getRoofVertices: the bottom plane of the last segment.
getRoofVerticesOfBottom(segs, verts) ==
    IF Len(segs) = 0 THEN << >>
    ELSE << verts[segs[Len(segs)].bottomPlane] >>

\* getRoofVertices(): null (<< >>) without segments, else the vertices the
\* top plane of the last segment has now.
getRoofVertices(segs, verts) ==
    IF Len(segs) = 0 THEN << >>
    ELSE << verts[segs[Len(segs)].topPlane] >>

\* getRoofHeight(): 0 without segments.
getRoofHeight(segs, height) ==
    IF Len(segs) = 0 THEN 0 ELSE height[segs[Len(segs)].topPlane]

\* Mutant of getPlanes: the bottom plane of the first segment is left out.
getPlanesAboveBottom(segs) ==
    IF Len(segs) = 0 THEN << >>
    ELSE [i \in 1..Len(segs) |-> segs[i].topPlane]

\* getPlanes(): the plane objects, bottom to top.
getPlanes(segs) ==
    IF Len(segs) = 0 THEN << >>
    ELSE <<segs[1].bottomPlane>> \o [i \in 1..Len(segs) |-> segs[i].topPlane]

\* What a LoftableModel shows: the faces of each segment and the queries.
Shown(segs, verts, height) ==
    [faces        |-> [i \in 1..Len(segs) |-> segs[i].faces],
     roofVertices |-> getRoofVertices(segs, verts),
     roofHeight   |-> getRoofHeight(segs, height),
     planes       |-> getPlanes(segs)]

---------------------------------------------------------------------------
(* The inputs the model calls perimeterWalkAlgorithm with                  *)

\* Rectangles up to MaxSide x MaxSide; heights 0 .. MaxHeight.
MaxSide == 2
MaxHeight == 1

Heights == 0..MaxHeight

\* A w x h rectangle, counter-clockwise from the origin.
Rectangle(w, h) == << V2(0, 0), V2(w, 0), V2(w, h), V2(0, h) >>

Rectangles == { Rectangle(w, h) : w \in 1..MaxSide, h \in 1..MaxSide }

\* The square of the spec's examples, and the same square given clockwise
\* and given from another corner.
Square        == << V2(0, 0), V2(2, 0), V2(2, 2), V2(0, 2) >>
SquareCW      == << V2(0, 0), V2(0, 2), V2(2, 2), V2(2, 0) >>
SquareShifted == << V2(2, 2), V2(0, 2), V2(0, 0), V2(2, 0) >>
\* A 4 x 2 rectangle, a 3-4-5 triangle in both windings, an L, and an
\* 8-vertex loop whose vertices sit at the eighths of its perimeter.
Wide          == << V2(0, 0), V2(4, 0), V2(4, 2), V2(0, 2) >>
Triangle      == << V2(0, 0), V2(4, 0), V2(0, 3) >>
TriangleCW    == << V2(0, 0), V2(0, 3), V2(4, 0) >>
LShape        == << V2(0, 0), V2(2, 0), V2(2, 1), V2(1, 1), V2(1, 2), V2(0, 2) >>
Octagon       == << V2(0, 0), V2(1, 0), V2(2, 0), V2(2, 1),
                    V2(2, 2), V2(1, 2), V2(0, 2), V2(0, 1) >>
\* Loops with zero-length edges: one that repeats its first vertex at the
\* end, one that repeats a middle vertex, a flat one, a single point.
ClosedTwice   == << V2(0, 0), V2(4, 0), V2(0, 3), V2(0, 0) >>
Stutter       == << V2(0, 0), V2(2, 0), V2(2, 0), V2(2, 2), V2(0, 2) >>
Flat          == << V2(0, 0), V2(2, 0), V2(1, 0) >>
Dot           == << V2(1, 1), V2(1, 1), V2(1, 1) >>
\* A loop with no zero-length edge that comes back to its first point.
Revisit       == << V2(0, 0), V2(4, 0), V2(4, 3), V2(0, 0), V2(0, 3) >>
\* Fewer than 3 vertices.
Empty         == << >>
Single        == << V2(0, 0) >>
Pair          == << V2(0, 0), V2(2, 0) >>
\* Two long thin rectangles whose perimeter parameters differ by less than
\* the tolerance without being equal.
LongA         == << V2(0, 0), V2(1, 0), V2(1, 22999), V2(0, 22999) >>
LongB         == << V2(0, 0), V2(1, 0), V2(1, 23000), V2(0, 23000) >>

Loops ==
    Rectangles \cup
    { Square, SquareCW, SquareShifted, Wide, Triangle, TriangleCW, LShape,
      Octagon, ClosedTwice, Stutter, Flat, Dot, Revisit, Empty, Single, Pair }

LongLoops == { LongA, LongB }

\* Two more long thin rectangles that start with their long edge: their
\* second vertices have parameters closer than the tolerance, and the first
\* loop repeats that vertex (a zero-length edge right behind the near tie).
LongStutter   == << V2(1, 0), V2(1, 22999), V2(1, 22999), V2(0, 22999), V2(0, 0) >>
LongTall      == << V2(1, 0), V2(1, 23000), V2(0, 23000), V2(0, 0) >>

NearTiePairs == { <<LongStutter, LongTall>>, <<LongTall, LongStutter>> }

\* The argument pairs (loopA, loopB).
LoopPairs == (Loops \X Loops) \cup (LongLoops \X LongLoops) \cup NearTiePairs

\* The value of a ParameterizedLoop variable before the constructor ran.
NoLoop == [vertices |-> << >>, params |-> << >>, totalLength |-> 0]

---------------------------------------------------------------------------
(* The planes and the inputs the model calls fromPlanes with               *)

\* The plane objects are 1 .. MaxPlanes.
MaxPlanes == 3

PlaneIds == 1..MaxPlanes

\* The heights of the planes: rising with the plane's number, falling with
\* it, or alternating between two heights (planes of equal height).
HeightProfiles ==
    { [p \in PlaneIds |-> p],
      [p \in PlaneIds |-> MaxPlanes - p],
      [p \in PlaneIds |-> p % 2] }

\* The vertices the planes start with.
InitialVertices == [p \in PlaneIds |-> IF p % 2 = 1 THEN Square ELSE Triangle]

\* The argument lists: every list of distinct planes, the empty one too.
PlaneLists ==
    { l \in UNION { [1..n -> PlaneIds] : n \in 0..MaxPlanes } :
        \A i, j \in 1..Len(l) : i # j => l[i] # l[j] }

\* The algorithmName arguments: omitted, registered names, an unknown one.
NameArgs == { << >>, <<"perimeter-walk">>, <<"alt">>, <<"bogus">> }

\* The values of LOFT.DEFAULT_ALGORITHM: not set, or a name.
DefaultSettings == { << >> } \cup { <<n>> : n \in AlgorithmNames }

\* What setVertices and setVertex are called with: the square with its
\* second vertex dragged to (4, 0), as a whole loop and as one vertex.
Dragged == << V2(0, 0), V2(4, 0), V2(2, 2), V2(0, 2) >>
EditLoops == { Dragged }
EditIndices == { 1 }
EditPositions == { V2(4, 0) }

\* The history of a fromPlanes call: the vertices the planes had when it
\* was made and, if it returned a model, what that model showed then.
NotBuilt == [vertices |-> << >>, shown |-> << >>]

---------------------------------------------------------------------------
(* Model (model/Model.ts): the planes and the lock flag of each segment    *)

\* Math.max(0, n).
MaxZero(n) == IF n > 0 THEN n ELSE 0

\* getSegmentCount(): planes.length - 1, never negative.
getSegmentCount(ps) == MaxZero(Len(ps) - 1)

\* createSegmentLockArray(): one false per segment.
createSegmentLockArray(ps) == [k \in 1..MaxZero(Len(ps) - 1) |-> FALSE]

syncSegmentLockArrayGrowOnly(ps, locked) ==
    LET segmentCount == getSegmentCount(ps)
    IN  IF Len(locked) < segmentCount
        THEN locked \o [k \in 1..(segmentCount - Len(locked)) |-> FALSE]
        ELSE locked

\* syncSegmentLockArray(): push false while the array is shorter than the
\* segment count, then set its length to the segment count.
syncSegmentLockArray(ps, locked) ==
    LET segmentCount == getSegmentCount(ps)
        pushed == IF Len(locked) < segmentCount
                  THEN locked \o [k \in 1..(segmentCount - Len(locked)) |-> FALSE]
                  ELSE locked
    IN  SubSeq(pushed, 1, segmentCount)

\* planes.indexOf(plane): the first position (from 0) holding the object,
\* -1 when none does.
indexOf(ps, plane) ==
    IF \E k \in 1..Len(ps) : ps[k] = plane
    THEN (CHOOSE k \in 1..Len(ps) :
             ps[k] = plane /\ \A j \in 1..(k - 1) : ps[j] # plane) - 1
    ELSE -1

\* planes.splice(index, 1).
splice(ps, index) == SubSeq(ps, 1, index) \o SubSeq(ps, index + 2, Len(ps))

\* The body of setSegmentLocked.
SetLocked(locked, index, value) ==
    IF index >= 0 /\ index < Len(locked)
    THEN [locked EXCEPT ![index + 1] = value]
    ELSE locked

\* addPlane is called while the Model holds fewer planes than this.
MaxModelPlanes == 3

\* The planes a Model is constructed with: none (the default) or a few,
\* the same object twice included.
ConstructorPlanes ==
    UNION { [1..n -> PlaneIds] : n \in 0..(MaxModelPlanes - 1) }

\* The indices setSegmentLocked is called with: below, in and above range.
LockIndices == (-1)..MaxModelPlanes

\* A call on the Model: the method, its arguments and what it returned.
Call(op, plane, index, locked, returned) ==
    [op |-> op, plane |-> plane, index |-> index, locked |-> locked,
     returned |-> returned]

\* The Model variables in a specification that has no Model.
ModelOff ==
    /\ modelPlanes = << >>
    /\ segmentLocked = << >>
    /\ lastCall = Call("off", 0, 0, FALSE, FALSE)

\* The loft variables in a specification that has no planes.
LoftOff ==
    /\ planeHeight = << >>
    /\ planeVertices = << >>
    /\ registry = {}
    /\ defaultAlgorithm = << >>
    /\ phase = "off"
    /\ argPlanes = << >>
    /\ argName = << >>
    /\ segments = << >>
    /\ warned = << >>
    /\ built = NotBuilt

\* The walk variables in a specification that makes no separate call.
WalkOff ==
    /\ pc = "off"
    /\ loopA = << >>
    /\ heightA = 0
    /\ loopB = << >>
    /\ heightB = 0
    /\ paramA = NoLoop
    /\ paramB = NoLoop
    /\ iA = 0
    /\ iB = 0
    /\ faces = << >>
    /\ steps = << >>
    /\ result = << >>

---------------------------------------------------------------------------
(* Specification Spec: one call of perimeterWalkAlgorithm                  *)

Init ==
    /\ pc = "call"
    /\ \E pair \in LoopPairs : loopA = pair[1] /\ loopB = pair[2]
    /\ heightA \in Heights
    /\ heightB \in Heights
    /\ paramA = NoLoop
    /\ paramB = NoLoop
    /\ iA = 0
    /\ iB = 0
    /\ faces = << >>
    /\ steps = << >>
    /\ result = << >>
    /\ LoftOff
    /\ ModelOff

\* The walk's locals as one record.
WalkState == [iA |-> iA, iB |-> iB, faces |-> faces, steps |-> steps]

\* perimeterWalkAlgorithm up to the call of walkPerimeters: the early return
\* for a degenerate loop, or else normalising, aligning and parameterising.
perimeterWalkAlgorithm ==
    /\ pc = "call"
    /\ \/ /\ IsDegenerate(loopA, loopB)
          /\ pc' = "done"
          /\ result' = << >>
          /\ UNCHANGED <<paramA, paramB, iA, iB, faces, steps>>
       \/ /\ ~IsDegenerate(loopA, loopB)
          /\ paramA' = PreparedA(loopA)
          /\ paramB' = PreparedB(loopA, loopB)
          /\ iA' = WalkStart.iA
          /\ iB' = WalkStart.iB
          /\ faces' = WalkStart.faces
          /\ steps' = WalkStart.steps
          /\ pc' = "walk"
          /\ UNCHANGED result
    /\ UNCHANGED <<loopA, heightA, loopB, heightB>>
    /\ UNCHANGED <<loftVars, modelVars>>

\* The walk's locals after the iteration, written back.
WalkTo(st) ==
    /\ iA' = st.iA
    /\ iB' = st.iB
    /\ faces' = st.faces
    /\ steps' = st.steps
    /\ UNCHANGED <<pc, loopA, heightA, loopB, heightB, paramA, paramB, result>>
    /\ UNCHANGED <<loftVars, modelVars>>

\* One iteration of walkPerimeters' while loop, by branch.
walkPerimeters ==
    /\ pc = "walk"
    /\ WalkContinues(paramA, paramB, WalkState)
    /\ \/ /\ Branch(paramA, paramB, WalkState) = "A exhausted"
          /\ WalkTo(StepAExhausted(paramA, paramB, heightA, heightB, WalkState))
       \/ /\ Branch(paramA, paramB, WalkState) = "B exhausted"
          /\ WalkTo(StepBExhausted(paramA, paramB, heightA, heightB, WalkState))
       \/ /\ Branch(paramA, paramB, WalkState) = "tie"
          /\ WalkTo(StepTie(paramA, paramB, heightA, heightB, WalkState))
       \/ /\ Branch(paramA, paramB, WalkState) = "A leads"
          /\ WalkTo(StepALeads(paramA, paramB, heightA, heightB, WalkState))
       \/ /\ Branch(paramA, paramB, WalkState) = "B leads"
          /\ WalkTo(StepBLeads(paramA, paramB, heightA, heightB, WalkState))

\* The while loop ends and perimeterWalkAlgorithm returns the faces.
perimeterWalkReturn ==
    /\ pc = "walk"
    /\ ~WalkContinues(paramA, paramB, WalkState)
    /\ pc' = "done"
    /\ result' = faces
    /\ UNCHANGED <<loopA, heightA, loopB, heightB, paramA, paramB, iA, iB,
                   faces, steps>>
    /\ UNCHANGED <<loftVars, modelVars>>

Next == perimeterWalkAlgorithm \/ walkPerimeters \/ perimeterWalkReturn

Spec == Init /\ [][Next]_vars

---------------------------------------------------------------------------
(* Specification SpecLoft: the planes, one fromPlanes call, later edits    *)

InitLoft ==
    /\ WalkOff
    /\ ModelOff
    /\ planeHeight \in HeightProfiles
    /\ planeVertices = InitialVertices
    /\ registry \in SUBSET AlgorithmNames
    /\ defaultAlgorithm \in DefaultSettings
    /\ phase = "idle"
    /\ argPlanes = << >>
    /\ argName = << >>
    /\ segments = << >>
    /\ warned = << >>
    /\ built = NotBuilt

\* LoftableModel.fromPlanes(planes, algorithmName): the whole call.
fromPlanes ==
    /\ phase = "idle"
    /\ \E planes \in PlaneLists, name \in NameArgs :
          \E r \in { FromPlanes(planes, name, registry, defaultAlgorithm,
                                planeVertices, planeHeight) } :
              /\ argPlanes' = planes
              /\ argName' = name
              /\ phase' = r.phase
              /\ segments' = r.segments
              /\ warned' = r.warned
              /\ built' =
                   [vertices |-> planeVertices,
                    shown    |-> IF r.phase = "returned"
                                 THEN << Shown(r.segments, planeVertices,
                                               planeHeight) >>
                                 ELSE << >>]
    /\ UNCHANGED <<planeHeight, planeVertices, registry, defaultAlgorithm>>
    /\ UNCHANGED <<walkVars, modelVars>>

\* The planes fromPlanes was called with.
InputPlanes == { argPlanes[i] : i \in 1..Len(argPlanes) }

\* SketchPlane.setVertices(vertices) on an input plane, after the model was
\* built.
setVertices ==
    /\ phase = "returned"
    /\ \E p \in InputPlanes, vs \in EditLoops :
          planeVertices' = [planeVertices EXCEPT ![p] = vs]
    /\ UNCHANGED <<planeHeight, registry, defaultAlgorithm, phase, argPlanes,
                   argName, segments, warned, built>>
    /\ UNCHANGED <<walkVars, modelVars>>

\* SketchPlane.setVertex(index, position) on an input plane, after the
\* model was built.
setVertex ==
    /\ phase = "returned"
    /\ \E p \in InputPlanes, index \in EditIndices, position \in EditPositions :
          /\ index < Len(planeVertices[p])
          /\ planeVertices' =
               [planeVertices EXCEPT ![p][index + 1] = position]
    /\ UNCHANGED <<planeHeight, registry, defaultAlgorithm, phase, argPlanes,
                   argName, segments, warned, built>>
    /\ UNCHANGED <<walkVars, modelVars>>

NextLoft == fromPlanes \/ setVertex \/ setVertices

SpecLoft == InitLoft /\ [][NextLoft]_vars

---------------------------------------------------------------------------
(* Specification SpecLoop: new ParameterizedLoop(vertices), on its own     *)

InitLoop ==
    /\ pc = "new"
    /\ \E pair \in LoopPairs : loopA = pair[1] /\ loopB = pair[2]
    /\ heightA = 0
    /\ heightB = 0
    /\ paramA = NoLoop
    /\ paramB = NoLoop
    /\ iA = 0
    /\ iB = 0
    /\ faces = << >>
    /\ steps = << >>
    /\ result = << >>
    /\ LoftOff
    /\ ModelOff

\* new ParameterizedLoop(vertices) on one of the two vertex lists, of any
\* length (the class is exported).
newParameterizedLoop ==
    /\ pc = "new"
    /\ \/ /\ paramA = NoLoop
          /\ paramA' = ParameterizedLoop(loopA)
          /\ UNCHANGED paramB
       \/ /\ paramB = NoLoop
          /\ paramB' = ParameterizedLoop(loopB)
          /\ UNCHANGED paramA
    /\ UNCHANGED <<pc, loopA, heightA, loopB, heightB, iA, iB, faces, steps,
                   result>>
    /\ UNCHANGED <<loftVars, modelVars>>

NextLoop == newParameterizedLoop

SpecLoop == InitLoop /\ [][NextLoop]_vars

---------------------------------------------------------------------------
(* Specification SpecModel: one Model and the calls that change it         *)

\* new Model(name, planes).
InitModel ==
    /\ WalkOff
    /\ LoftOff
    /\ modelPlanes \in ConstructorPlanes
    /\ segmentLocked = createSegmentLockArray(modelPlanes)
    /\ lastCall = Call("new", 0, 0, FALSE, FALSE)

\* addPlane(plane).
addPlane ==
    /\ lastCall.op # "off"
    /\ Len(modelPlanes) < MaxModelPlanes
    /\ \E plane \in PlaneIds :
          /\ modelPlanes' = Append(modelPlanes, plane)
          /\ segmentLocked' = syncSegmentLockArray(modelPlanes', segmentLocked)
          /\ lastCall' = Call("addPlane", plane, 0, FALSE, FALSE)
    /\ UNCHANGED <<walkVars, loftVars>>

\* removePlane(plane).
removePlane ==
    /\ lastCall.op # "off"
    /\ \E plane \in PlaneIds :
          \/ /\ indexOf(modelPlanes, plane) = -1
             /\ lastCall' = Call("removePlane", plane, 0, FALSE, FALSE)
             /\ UNCHANGED <<modelPlanes, segmentLocked>>
          \/ /\ indexOf(modelPlanes, plane) # -1
             /\ modelPlanes' = splice(modelPlanes, indexOf(modelPlanes, plane))
             /\ segmentLocked' = syncSegmentLockArray(modelPlanes', segmentLocked)
             /\ lastCall' = Call("removePlane", plane, 0, FALSE, TRUE)
    /\ UNCHANGED <<walkVars, loftVars>>

\* setSegmentLocked(index, locked).
setSegmentLocked ==
    /\ lastCall.op # "off"
    /\ \E index \in LockIndices, locked \in BOOLEAN :
          /\ segmentLocked' = SetLocked(segmentLocked, index, locked)
          /\ lastCall' = Call("setSegmentLocked", 0, index, locked, FALSE)
    /\ UNCHANGED modelPlanes
    /\ UNCHANGED <<walkVars, loftVars>>

NextModel == addPlane \/ removePlane \/ setSegmentLocked

SpecModel == InitModel /\ [][NextModel]_vars

---------------------------------------------------------------------------
(* Claims about perimeterWalkAlgorithm                                     *)

\* The cursors after the iteration that emitted face k.
CursorAfter(k) ==
    IF k < Len(steps) THEN [iA |-> steps[k + 1].iA, iB |-> steps[k + 1].iB]
    ELSE [iA |-> iA, iB |-> iB]

\* The loops the walk runs on have the vertex counts of the arguments.
nA == Len(loopA)
nB == Len(loopB)

\* C1: for two loops of at least 3 vertices the walk terminates: every
\* iteration emits exactly one face and moves iA, iB or both forward, never
\* back; no cursor passes its bound, so the distance (nA - iA) + (nB - iB)
\* to the end of the walk stays >= 0 while it strictly decreases, and the
\* loop ends exactly when it is 0; the result holds only 4-vertex faces, at
\* most nA + nB of them.
C1_WalkTerminates ==
    /\ [](pc = "walk" =>
            /\ Count(paramA) = nA /\ Count(paramB) = nB
            /\ iA \in 0..nA /\ iB \in 0..nB
            /\ Len(faces) <= iA + iB)
    /\ [][pc = "walk" /\ pc' = "walk" =>
            /\ Len(faces') = Len(faces) + 1
            /\ iA' \in {iA, iA + 1} /\ iB' \in {iB, iB + 1}
            /\ (nA - iA') + (nB - iB') < (nA - iA) + (nB - iB)]_vars
    /\ [](pc = "walk" =>
            (WalkContinues(paramA, paramB, WalkState)
                <=> (nA - iA) + (nB - iB) > 0))
    /\ [](pc = "done" /\ nA >= 3 /\ nB >= 3 =>
            /\ Len(result) <= nA + nB
            /\ \A k \in 1..Len(result) : Len(result[k].vertices) = 4)

\* C1's case: a finished walk of two loops of different vertex counts that
\* emitted as many faces as a walk can (the first cursor to reach its bound
\* does so in a tie step, so one less than nA + nB).
C1_Witness ==
    /\ pc = "done" /\ nA >= 3 /\ nB >= 3 /\ nA # nB
    /\ Len(result) = nA + nB - 1

\* The face corner a1 (b1) of face k is the vertex the cursor moved to.
LeadingAIsVertex(k) ==
    /\ steps[k].a1Exact
    /\ result[k].vertices[2] = toPoint3D_A(Vertex(paramA, steps[k].iA + 1), heightA)
LeadingBIsVertex(k) ==
    /\ steps[k].b1Exact
    /\ result[k].vertices[3] = toPoint3D_B(Vertex(paramB, steps[k].iB + 1), heightB)

\* The faces that have vertex v of loop A (of loop B) as an exact corner:
\* a0 and b0 are always vertex(iA) and vertex(iB); a1 and b1 are
\* vertex(iA + 1) and vertex(iB + 1) unless they were interpolated.
FacesWithExactA(v) ==
    { k \in 1..Len(steps) :
        \/ steps[k].iA % nA = v
        \/ steps[k].a1Exact /\ (steps[k].iA + 1) % nA = v }
FacesWithExactB(v) ==
    { k \in 1..Len(steps) :
        \/ steps[k].iB % nB = v
        \/ steps[k].b1Exact /\ (steps[k].iB + 1) % nB = v }

\* The number of exact corners of face k.
ExactCorners(k) ==
    2 + (IF steps[k].a1Exact THEN 1 ELSE 0) + (IF steps[k].b1Exact THEN 1 ELSE 0)

\* The number of exact leading corners (a1, b1) of face k.
ExactLeadingCorners(k) ==
    (IF steps[k].a1Exact THEN 1 ELSE 0) + (IF steps[k].b1Exact THEN 1 ELSE 0)

RECURSIVE SumOver(_, _)
SumOver(f, k) == IF k = 0 THEN 0 ELSE SumOver(f, k - 1) + f[k]

\* C2 as stated: in the result of a walk of two loops of at least 3
\* vertices, every vertex of A and of B is an exact corner of exactly one
\* face, and the exact corners of all faces number nA + nB.
C2_AsStated ==
    pc = "done" /\ nA >= 3 /\ nB >= 3 =>
        /\ \A v \in 0..(nA - 1) : Cardinality(FacesWithExactA(v)) = 1
        /\ \A v \in 0..(nB - 1) : Cardinality(FacesWithExactB(v)) = 1
        /\ SumOver([k \in 1..Len(steps) |-> ExactCorners(k)], Len(steps))
             = nA + nB

\* C2, amended: every vertex of A is the exact leading corner a1 of exactly
\* one face and every vertex of B the exact leading corner b1 of exactly one
\* face, so the exact leading corners of all faces number nA + nB.  (The
\* trailing corners a0, b0 are exact vertices as well, in every face.)
C2_ExactLeadingOnce ==
    pc = "done" /\ nA >= 3 /\ nB >= 3 =>
        /\ Len(result) = Len(steps)
        /\ \A v \in 0..(nA - 1) :
             Cardinality({ k \in 1..Len(steps) :
                 LeadingAIsVertex(k) /\ (steps[k].iA + 1) % nA = v }) = 1
        /\ \A v \in 0..(nB - 1) :
             Cardinality({ k \in 1..Len(steps) :
                 LeadingBIsVertex(k) /\ (steps[k].iB + 1) % nB = v }) = 1
        /\ SumOver([k \in 1..Len(steps) |-> ExactLeadingCorners(k)],
                   Len(steps)) = nA + nB
        /\ \A k \in 1..Len(steps) :
             /\ result[k].vertices[1] = toPoint3D_A(Vertex(paramA, steps[k].iA), heightA)
             /\ result[k].vertices[4] = toPoint3D_B(Vertex(paramB, steps[k].iB), heightB)

\* C2's case: the spec's example, a 4-vertex square walked against an
\* 8-vertex loop, with at least one interpolated corner.
C2_Witness ==
    /\ pc = "done" /\ loopA = Square /\ loopB = Octagon
    /\ Len(result) = 8
    /\ \E k \in 1..Len(steps) : ~steps[k].a1Exact

\* C3: in every iteration at most one of a1, b1 is interpolated; an
\* interpolated corner is on the loop whose cursor stayed, while the other
\* cursor moved; a tie step moves both cursors and takes both loops' next
\* vertices.
C3_InterpolatesTheLoopThatStayed ==
    \A k \in 1..Len(steps) :
        LET s == steps[k]
            after == CursorAfter(k)
        IN  /\ s.a1Exact \/ s.b1Exact
            /\ ~s.a1Exact =>
                 /\ after.iA = s.iA /\ after.iB = s.iB + 1
                 /\ s.interpLoop = "A"
                 /\ faces[k].vertices[2] =
                      toPoint3D_A(Interpolate(paramA, s.interpEdge, s.interpT), heightA)
            /\ ~s.b1Exact =>
                 /\ after.iB = s.iB /\ after.iA = s.iA + 1
                 /\ s.interpLoop = "B"
                 /\ faces[k].vertices[3] =
                      toPoint3D_B(Interpolate(paramB, s.interpEdge, s.interpT), heightB)
            /\ s.a1Exact =>
                 /\ after.iA = s.iA + 1
                 /\ faces[k].vertices[2] = toPoint3D_A(Vertex(paramA, s.iA + 1), heightA)
            /\ s.b1Exact =>
                 /\ after.iB = s.iB + 1
                 /\ faces[k].vertices[3] = toPoint3D_B(Vertex(paramB, s.iB + 1), heightB)
            /\ s.branch = "tie" => s.a1Exact /\ s.b1Exact

\* C3's case: a walk that has taken a tie step, a step interpolating on A
\* and a step interpolating on B.
C3_Witness ==
    /\ \E k \in 1..Len(steps) : steps[k].branch = "tie"
    /\ \E k \in 1..Len(steps) : ~steps[k].a1Exact
    /\ \E k \in 1..Len(steps) : ~steps[k].b1Exact

\* No edge of the loop, the closing one included, has length 0.
NonzeroEdges(loop) ==
    \A k \in 1..Len(loop) : loop[k] # loop[(k % Len(loop)) + 1]

\* C4: the same loop L (n >= 3 vertices, no zero-length edge) on both sides
\* gives exactly n quads, every step a tie step without interpolation, and
\* face k joins edge k of the CCW-normalised L at heightA to the same edge
\* at heightB.
C4_SameLoopGivesPrism ==
    pc = "done" /\ loopA = loopB /\ Len(loopA) >= 3 /\ NonzeroEdges(loopA) =>
        LET L == ensureWindingCCW(loopA)
            n == Len(L)
        IN  /\ Len(result) = n
            /\ Len(steps) = n
            /\ \A k \in 1..n :
                 LET p == L[k]
                     q == L[(k % n) + 1]
                 IN  /\ steps[k].branch = "tie"
                     /\ steps[k].a1Exact /\ steps[k].b1Exact
                     /\ result[k].vertices =
                          << toPoint3D_A(p, heightA), toPoint3D_A(q, heightA),
                             toPoint3D_B(q, heightB), toPoint3D_B(p, heightB) >>

\* C4's case: the clockwise square on both sides, at different heights.
C4_Witness ==
    /\ pc = "done" /\ loopA = SquareCW /\ loopB = SquareCW
    /\ heightA # heightB
    /\ Len(result) = 4

\* C5: when either loop has fewer than 3 vertices the call returns an empty
\* face list: the walk is never entered and no face is built.
C5_DegenerateReturnsEmpty ==
    nA < 3 \/ nB < 3 =>
        /\ pc \in {"call", "done"}
        /\ faces = << >> /\ steps = << >>
        /\ paramA = NoLoop /\ paramB = NoLoop
        /\ pc = "done" => result = << >>

\* C5's case: the call has returned for a 2-vertex loopA and a valid loopB.
C5_Witness ==
    pc = "done" /\ loopA = Pair /\ loopB = Square /\ result = << >>


---------------------------------------------------------------------------
(* Claims about LoftableModel                                              *)

\* The number of planes fromPlanes was called with.
nPlanes == Len(argPlanes)

\* Where plane p stands in the list l.
PositionIn(l, p) == CHOOSE i \in 1..Len(l) : l[i] = p

\* s is l sorted by ascending height the way Array.prototype.sort sorts:
\* the same planes, heights never falling, planes of equal height in the
\* order they have in l.
IsSortedInput(s, l, height) ==
    /\ Len(s) = Len(l)
    /\ { s[i] : i \in 1..Len(s) } = { l[i] : i \in 1..Len(l) }
    /\ \A i, j \in 1..Len(s) :
          i < j => /\ height[s[i]] <= height[s[j]]
                   /\ height[s[i]] = height[s[j]]
                        => PositionIn(l, s[i]) < PositionIn(l, s[j])

\* The planes the segments run through, read off the segments bottom first.
PlanesOfSegments ==
    [i \in 1..(Len(segments) + 1) |->
        IF i = 1 THEN segments[1].bottomPlane ELSE segments[i - 1].topPlane]

\* The call was made with a name that is not registered.
UnknownName == argName # << >> /\ argName[1] \notin registry

\* The call did what the same call does with the algorithmName name:
\* both threw, or both returned models with the same segments.
SameAsCallWithName(name) ==
    \E r \in { FromPlanes(argPlanes, name, registry, defaultAlgorithm,
                          built.vertices, planeHeight) } :
        phase = r.phase /\ segments = r.segments

\* The highest plane of the call, the later one among equals.
IsTopPlane(p) ==
    /\ \E i \in 1..nPlanes : argPlanes[i] = p
    /\ \A i \in 1..nPlanes :
          \/ planeHeight[argPlanes[i]] < planeHeight[p]
          \/ /\ planeHeight[argPlanes[i]] = planeHeight[p]
             /\ i <= PositionIn(argPlanes, p)

\* C6: the model fromPlanes returns for N planes has N - 1 segments when
\* N >= 2 and none when N < 2; segment i runs from the i-th to the
\* (i+1)-th plane of the input sorted by ascending height, so bottom heights
\* never fall and each segment's top plane is the next segment's bottom.
C6_SegmentsJoinSortedPlanes ==
    phase = "returned" =>
        /\ nPlanes < 2 => segments = << >>
        /\ nPlanes >= 2 =>
              /\ Len(segments) = nPlanes - 1
              /\ IsSortedInput(PlanesOfSegments, argPlanes, planeHeight)
              /\ \A i \in 1..Len(segments) :
                    /\ segments[i].bottomPlane = PlanesOfSegments[i]
                    /\ segments[i].topPlane = PlanesOfSegments[i + 1]
                    /\ planeHeight[segments[i].bottomPlane]
                          <= planeHeight[segments[i].topPlane]
              /\ \A i \in 1..(Len(segments) - 1) :
                    /\ segments[i].topPlane = segments[i + 1].bottomPlane
                    /\ planeHeight[segments[i].bottomPlane]
                          <= planeHeight[segments[i + 1].bottomPlane]

\* A model of two or more segments built from planes given out of order.
C6_Witness ==
    /\ phase = "returned"
    /\ Len(segments) >= 2
    /\ \E i \in 1..(nPlanes - 1) :
          planeHeight[argPlanes[i]] > planeHeight[argPlanes[i + 1]]

\* C7 as stated: a call with a name that is not registered does what the
\* call with the name omitted does, whatever the registry and the
\* configured default are.
C7_AsStated ==
    phase \in {"returned", "threw"} /\ UnknownName =>
        SameAsCallWithName(<< >>)

\* C7, amended: a call with a name that is not registered does what the
\* call with the name 'perimeter-walk' does; that is what the call with the
\* name omitted does when LOFT.DEFAULT_ALGORITHM is not set, is
\* 'perimeter-walk' or is itself not registered.
C7_UnknownNameIsPerimeterWalk ==
    phase \in {"returned", "threw"} /\ UnknownName =>
        /\ SameAsCallWithName(<<HardcodedDefault>>)
        /\ \/ defaultAlgorithm = << >>
           \/ defaultAlgorithm = <<HardcodedDefault>>
           \/ defaultAlgorithm[1] \notin registry
           => SameAsCallWithName(<< >>)

\* An unknown name fell back to the perimeter walk while another registered
\* algorithm is the configured default.
C7_Witness ==
    /\ phase = "returned"
    /\ UnknownName
    /\ warned = argName
    /\ Len(segments) >= 1
    /\ defaultAlgorithm # << >>
    /\ defaultAlgorithm[1] \in registry \ {HardcodedDefault}

\* C8 as stated: with no algorithm registered every call fails, whatever
\* the plane list and the name, and no model is returned.
C8_AsStated ==
    registry = {} /\ phase # "idle" => phase = "threw"

\* C8, amended: with no algorithm registered a call with two or more
\* planes throws and returns no model; a call with fewer than two planes
\* returns the model without segments and never consults the registry.
C8_EmptyRegistryThrowsFromTwoPlanes ==
    registry = {} /\ phase # "idle" =>
        /\ nPlanes >= 2 =>
              phase = "threw" /\ segments = << >> /\ built.shown = << >>
        /\ nPlanes < 2 =>
              phase = "returned" /\ segments = << >> /\ warned = << >>

\* A call with planes to loft and nothing registered threw.
C8_Witness ==
    /\ registry = {}
    /\ nPlanes >= 2
    /\ phase = "threw"
    /\ warned # << >>

\* C9 as stated: whatever setVertex and setVertices do to the planes after
\* fromPlanes returned, the model shows what it showed on return: every
\* segment's faces, getRoofVertices, getRoofHeight and getPlanes.
C9_AsStated ==
    phase = "returned" =>
        Shown(segments, planeVertices, planeHeight) = built.shown[1]

\* C9, amended: after setVertex and setVertices on the planes the model
\* keeps every segment's faces, getRoofHeight and getPlanes as they were on
\* return; getRoofVertices is the vertices the highest plane has now.
C9_FacesKeptRoofLive ==
    phase = "returned" =>
        LET now == Shown(segments, planeVertices, planeHeight)
            was == built.shown[1]
        IN  /\ now.faces = was.faces
            /\ now.roofHeight = was.roofHeight
            /\ now.planes = was.planes
            /\ nPlanes < 2 => now.roofVertices = << >>
            /\ nPlanes >= 2 =>
                  \E p \in PlaneIds :
                      /\ IsTopPlane(p)
                      /\ now.roofVertices = << planeVertices[p] >>

\* The highest plane of a returned model was edited after the return.
C9_Witness ==
    /\ phase = "returned"
    /\ Len(segments) >= 1
    /\ \E p \in PlaneIds :
          /\ IsTopPlane(p)
          /\ planeVertices[p] # built.vertices[p]
          /\ built.shown[1].roofVertices = << built.vertices[p] >>

\* C10 as stated: for a plane list of any length, 0 and 1 too, getPlanes
\* of the returned model is the input sorted by ascending height.
C10_AsStated ==
    phase = "returned" =>
        IsSortedInput(getPlanes(segments), argPlanes, planeHeight)

\* C10, amended: getPlanes of the returned model is the input sorted by
\* ascending height for every list but the one-plane list; there it is
\* empty, as the model has no segment to hold the plane.
C10_PlanesAreSortedInput ==
    phase = "returned" =>
        /\ nPlanes # 1 =>
              IsSortedInput(getPlanes(segments), argPlanes, planeHeight)
        /\ nPlanes = 1 => getPlanes(segments) = << >>

\* getPlanes gave three or more planes in another order than the call's.
C10_Witness ==
    /\ phase = "returned"
    /\ nPlanes >= 3
    /\ Len(getPlanes(segments)) = nPlanes
    /\ getPlanes(segments) # argPlanes

---------------------------------------------------------------------------
(* Claims about ParameterizedLoop                                          *)

\* The parameters of the loop L: 0 first, never falling up to the sentinel
\* 1 at index n, each within [0, 1].
ParamsRiseFromZeroToOne(L) ==
    LET n == Count(L)
    IN  /\ Len(L.params) = n
        /\ Param(L, 0) = Rat(0, 1)
        /\ Param(L, n) = Rat(1, 1)
        /\ Param(L, n + 1) = Rat(1, 1)
        /\ \A i \in 0..(n - 1) : RLe(Param(L, i), Param(L, i + 1))
        /\ \A i \in 0..n :
              RLe(Rat(0, 1), Param(L, i)) /\ RLe(Param(L, i), Rat(1, 1))

\* C11: every ParameterizedLoop built from n >= 1 vertices, zero-length
\* edges and zero total perimeter included, has param(0) = 0,
\* param(i) <= param(i + 1) for 0 <= i < n with param(n) the sentinel 1, and
\* every param(i) in [0, 1].
C11_ParamsRiseFromZeroToOne ==
    /\ paramA # NoLoop /\ Count(paramA) >= 1 => ParamsRiseFromZeroToOne(paramA)
    /\ paramB # NoLoop /\ Count(paramB) >= 1 => ParamsRiseFromZeroToOne(paramB)

\* C11's case: loops built from three equal points (zero perimeter) and
\* from a single vertex.
C11_Witness ==
    /\ pc = "new"
    /\ loopA = Dot /\ paramA # NoLoop /\ paramA.totalLength = 0
    /\ loopB = Single /\ paramB # NoLoop /\ Count(paramB) = 1

---------------------------------------------------------------------------
(* Claims about the walk's calls of interpolate                            *)

\* The loop the iteration that emitted face k interpolated on.
InterpolatedLoop(k) == IF steps[k].interpLoop = "A" THEN paramA ELSE paramB

\* The iteration that emitted face k called interpolate(i, t).
Interpolated(k) == ~steps[k].a1Exact \/ ~steps[k].b1Exact

\* C12 as stated: every interpolate(i, t) the walk calls, in the A-leads,
\* B-leads, A-exhausted and B-exhausted branches, has
\* param(i) <= t <= param(i + 1), so the point lies between vertex(i) and
\* vertex(i + 1).
C12_AsStated ==
    \A k \in 1..Len(steps) :
        Interpolated(k) =>
            LET L == InterpolatedLoop(k)
                i == steps[k].interpEdge
                t == steps[k].interpT
            IN  RLe(Param(L, i), t) /\ RLe(t, Param(L, i + 1))

---------------------------------------------------------------------------
(* Claims about the strip of faces                                         *)

\* The sides of a face [a0, a1, b1, b0]: a pair (point on A, point on B).
TrailingSide(f) == << f.vertices[1], f.vertices[4] >>
LeadingSide(f)  == << f.vertices[2], f.vertices[3] >>

\* C13 as stated: the faces one walk emits form a continuous closed strip;
\* the leading side (a1, b1) of face k is the trailing side (a0, b0) of face
\* k + 1, and the leading side of the last face is the trailing side of the
\* first.
C13_AsStated ==
    /\ \A k \in 1..(Len(faces) - 1) :
           LeadingSide(faces[k]) = TrailingSide(faces[k + 1])
    /\ (pc = "done" /\ Len(result) > 0) =>
           LeadingSide(result[Len(result)]) = TrailingSide(result[1])

---------------------------------------------------------------------------
(* Claims about the end of the walk                                        *)

\* p < 1 - EPS for a parameter p = n / d, in integers:
\* (d - n) * EpsInv > d.
BelowOneByEps(p) == p.d - p.n > p.d \div EpsInv

\* Every real vertex of the loop has a parameter below 1 - EPS.
RealParamsBelowOne(L) ==
    \A i \in 0..(Count(L) - 1) : BelowOneByEps(Param(L, i))

\* The walk runs or has run on two loops whose real parameters are all
\* below 1 - EPS.
WalkedBelowOne ==
    /\ pc \in {"walk", "done"}
    /\ Count(paramA) >= 3 /\ Count(paramB) >= 3
    /\ RealParamsBelowOne(paramA) /\ RealParamsBelowOne(paramB)

\* C15: when every real vertex of both loops has a parameter below 1 - EPS,
\* the walk never takes the 'A exhausted' or the 'B exhausted' branch:
\* neither cursor is at its bound while the other is not, and the last
\* iteration is a tie step that moves iA from nA - 1 to nA and iB from
\* nB - 1 to nB together.
C15_CursorsFinishTogether ==
    WalkedBelowOne =>
        /\ \A k \in 1..Len(steps) :
               steps[k].branch \notin {"A exhausted", "B exhausted"}
        /\ (iA = Count(paramA)) <=> (iB = Count(paramB))
        /\ ~WalkContinues(paramA, paramB, WalkState) =>
               /\ Len(steps) >= 1
               /\ steps[Len(steps)].branch = "tie"
               /\ steps[Len(steps)].iA = Count(paramA) - 1
               /\ steps[Len(steps)].iB = Count(paramB) - 1
               /\ iA = Count(paramA) /\ iB = Count(paramB)

\* C15's case: a finished walk of two such loops of different vertex counts
\* in which one loop led, the other led, and the last step was the tie.
C15_Witness ==
    /\ WalkedBelowOne
    /\ pc = "done"
    /\ Count(paramA) # Count(paramB)
    /\ \E k \in 1..Len(steps) : steps[k].branch = "A leads"
    /\ \E k \in 1..Len(steps) : steps[k].branch = "B leads"
    /\ steps[Len(steps)].branch = "tie"

---------------------------------------------------------------------------
(* Claims about Model                                                      *)

\* The step is a removePlane of a plane the Model does not hold.
RemovesAbsentPlane ==
    /\ lastCall'.op = "removePlane"
    /\ \A k \in 1..Len(modelPlanes) : modelPlanes[k] # lastCall'.plane

\* The step is a setSegmentLocked with an index outside segmentLocked.
LocksOutOfRange ==
    /\ lastCall'.op = "setSegmentLocked"
    /\ (lastCall'.index < 0 \/ lastCall'.index >= Len(segmentLocked))

\* C14: after the constructor and after every addPlane, removePlane and
\* setSegmentLocked, segmentLocked.length = getSegmentCount() =
\* max(0, planes.length - 1); removePlane of a plane the Model does not hold
\* returns false and leaves planes and segmentLocked as they were;
\* setSegmentLocked with an index out of range changes nothing.
C14_LockArrayFollowsPlanes ==
    /\ [](lastCall.op # "off" =>
            /\ Len(segmentLocked) = getSegmentCount(modelPlanes)
            /\ Len(segmentLocked) =
                  (IF Len(modelPlanes) >= 1 THEN Len(modelPlanes) - 1 ELSE 0))
    /\ [][RemovesAbsentPlane =>
            /\ lastCall'.returned = FALSE
            /\ modelPlanes' = modelPlanes
            /\ segmentLocked' = segmentLocked]_vars
    /\ [][LocksOutOfRange =>
            /\ modelPlanes' = modelPlanes
            /\ segmentLocked' = segmentLocked]_vars

\* C14's case: a Model that held three planes and a locked second segment
\* lost a plane, so that the array was trimmed, and then was asked to
\* remove a plane it does not hold.
C14_Witness ==
    /\ lastCall.op = "removePlane"
    /\ lastCall.returned = FALSE
    /\ \A k \in 1..Len(modelPlanes) : modelPlanes[k] # lastCall.plane
    /\ Len(modelPlanes) = 2
    /\ segmentLocked = << TRUE >>

============================================================================
